---- MODULE Spec2Model ----
(***************************************************************************)
(* A model of ntumirlab/stock-analysis: the Oscar four-indicator strategy  *)
(* (signal composition, look-ahead shift, hold-until, capacity cap), the   *)
(* Roger recommendation adapter, and the two parallel parameter sweeps.    *)
(***************************************************************************)
EXTENDS Integers, Sequences, FiniteSets, TLC

VARIABLES
    mode,                   \* which program of the repository this behaviour runs
    base_position,          \* OscarTWStrategy.base_position: boolean, Days x Stocks as
                            \* __init__ builds it, Dates x Cols as the allocator gets it
    max_stocks,             \* the capacity K given to run_strategy / _test_single_config
    final_position,         \* run_strategy: the matrix built by the per-date loop
    rs_date,                \* run_strategy: next row of `for date in base_position.index`
    final_position_values,  \* _test_single_config: the numpy copy truncated in place
    ts_row,                 \* _test_single_config: next i of `for i in range(len(...))`
    streak_df,              \* _streak: the matrix given as df
    streak_result,          \* _streak: the matrix returned (None before the call)
    pc,                     \* OscarTWStrategy.__init__: how far construction has come
    market_data,            \* what _load_data and data.indicator give, per day and stock
    buy_condition,          \* what _build_buy_condition returned (line 63)
    sell_condition,         \* what _build_sell_condition returned (line 64)
    buy_signal,             \* self.buy_signal after the shift (line 69)
    sell_signal,            \* self.sell_signal after the shift (line 70)
    sweep,                  \* which executor runs: "max_stock" or "single_stock"
    task,                   \* per submitted task: queued, running, or how it ended
    collected,              \* the futures the as_completed loop has handled
    results,                \* the results list, in completion order
    logged,                 \* the tasks whose failure some logger call reported
    sweep_pc,               \* "collect", then "done" or the exception that escaped
    cfg,                    \* config.yaml: roger.<task_name>.buy_weekday / sell_weekday
    strategy,               \* the RogerTWStrategyBase object's buy_weekday, sell_weekday
    roger_pc,               \* where the strategy is: "new", "constructed", "fold",
                            \* "created", "done", or the exception that escaped
    recommendation_records, \* what RecommendationDAO.load() returned
    rec_i,                  \* next record of `for record in recommendation_records`
    weekly_batches,         \* aligned_date -> <<original date, stocks>>
    records,                \* _create_position_df: aligned_date -> the ids appended to
                            \* `records` for it, in order (None before the loop)
    window_input,           \* the matrix given to _apply_trading_window
    align_dt,               \* two record dates as `dt`
    align_key,              \* their aligned_date (None before it is computed)
    position                \* what _create_position_df returned, then run_strategy's

allocVars == <<base_position, final_position, rs_date, final_position_values, ts_row>>

streakVars == <<streak_df, streak_result>>

signalVars == <<pc, market_data, buy_condition, sell_condition, buy_signal, sell_signal>>

sweepVars == <<sweep, task, collected, results, logged, sweep_pc>>

callVars == <<window_input, align_dt, align_key>>

rogerVars == <<cfg, strategy, roger_pc, recommendation_records, rec_i, weekly_batches,
               records, position, callVars>>

vars == <<mode, max_stocks, allocVars, streakVars, signalVars, sweepVars, rogerVars>>

\* ------------------------------------------------------------------ bounds
NumCols  == 3      \* instrument columns of the matrices given to the allocator
NumDates == 2      \* rows (trading dates) of the matrices given to the allocator
MaxK     == 3      \* largest capacity tried
NumDays  == 4      \* rows (trading days) of the indicator and signal matrices
NumStreakDays == 3 \* rows of the matrices given to _streak on its own
NumTasks == 3      \* tasks a sweep submits (capacity values, or stocks with a signal)
PoolSize == 2      \* max_workers of the ProcessPoolExecutor
WeekdayReach == 6  \* how far outside 1..5 a configured weekday is tried
MaxRecords == 2    \* recommendation records the DAO returns
MaxRogerStocks == 2 \* largest roger max_stocks tried
LastMarketDay == 15 \* universe.index.max(), in days since the Monday of the first week

\* the universe of the signal matrices, in column order (spec scenario A)
Stocks == {"S1", "S2"}
Days   == 1..NumDays
StreakDays == 1..NumStreakDays

\* a cell of a boolean matrix that may hold missing values (object dtype)
NA == "NaN"
Bool3 == {"True", "False", NA}

\* Python's None, and a matrix not computed yet; every DataFrame of the model has
\* at least one row, so no matrix equals it
None == <<>>

AllocIdle ==
    /\ base_position = None /\ final_position = None
    /\ rs_date = 0 /\ final_position_values = None /\ ts_row = 0

StreakIdle == streak_df = None /\ streak_result = None

CallIdle == window_input = None /\ align_dt = None /\ align_key = None

RogerIdle ==
    /\ cfg = None /\ strategy = None /\ roger_pc = "idle"
    /\ recommendation_records = <<>> /\ rec_i = 0 /\ weekly_batches = <<>>
    /\ records = None /\ position = None
    /\ CallIdle

SweepIdle ==
    /\ sweep = "none" /\ task = None /\ collected = {} /\ results = <<>>
    /\ logged = {} /\ sweep_pc = "idle"

SignalIdle ==
    /\ pc = "idle" /\ market_data = None /\ buy_condition = None /\ sell_condition = None
    /\ buy_signal = None /\ sell_signal = None

Cols  == 1..NumCols
Dates == 1..NumDates

Min(a, b) == IF a <= b THEN a ELSE b
Max(a, b) == IF a >= b THEN a ELSE b

\* ------------------------------------------------------- capacity allocator
\* Python's lst[:k]
PySlicePrefix(lst, k) ==
    IF k >= 0 THEN SubSeq(lst, 1, Min(k, Len(lst)))
              ELSE SubSeq(lst, 1, Max(0, Len(lst) + k))

\* can_hold[can_hold].index.tolist() and row_values.nonzero()[0]:
\* the columns holding True, in column order
TrueIndices(row) == SelectSeq([c \in Cols |-> c], LAMBDA c : row[c])

RowAny(row) == \E c \in Cols : row[c]

SeqToSet(s) == {s[i] : i \in 1..Len(s)}

\* the truncation left out: every eligible instrument is held
SelectedStocks_NoCap(stocks_to_hold, k) == stocks_to_hold

\* stocks_to_hold[:max_stocks]
SelectedStocks(stocks_to_hold, k) == PySlicePrefix(stocks_to_hold, k)

\* the last n kept instead of the first n (true_indices[-n_stocks:])
KeptIndices_Last(true_indices, n) ==
    SubSeq(true_indices, Max(1, Len(true_indices) - n + 1), Len(true_indices))

\* true_indices[:n_stocks]
KeptIndices(true_indices, n) == PySlicePrefix(true_indices, n)

\* one iteration of the per-date loop of run_strategy
RunStrategyRow(can_hold, out_row, k) ==
    IF RowAny(can_hold)
    THEN LET selected_stocks == SelectedStocks(TrueIndices(can_hold), k)
         IN  [c \in Cols |-> IF c \in SeqToSet(selected_stocks) THEN TRUE ELSE out_row[c]]
    ELSE out_row

\* one iteration of the row loop of _test_single_config
TestSingleConfigRow(row_values, n) ==
    IF RowAny(row_values)
    THEN LET true_indices == TrueIndices(row_values)
         IN  IF Len(true_indices) > n
             THEN [c \in Cols |-> c \in SeqToSet(KeptIndices(true_indices, n))]
             ELSE row_values
    ELSE row_values

AllFalse == [d \in Dates |-> [c \in Cols |-> FALSE]]

InitAlloc ==
    /\ mode = "alloc"
    /\ StreakIdle /\ SignalIdle /\ SweepIdle /\ RogerIdle
    /\ base_position \in [Dates -> [Cols -> BOOLEAN]]
    /\ max_stocks \in 1..MaxK
    /\ final_position = AllFalse
    /\ rs_date = 1
    /\ final_position_values = base_position
    /\ ts_row = 1

RunStrategyDate ==
    /\ mode = "alloc"
    /\ rs_date <= NumDates
    /\ final_position' = [final_position EXCEPT ![rs_date] =
                             RunStrategyRow(base_position[rs_date], @, max_stocks)]
    /\ rs_date' = rs_date + 1
    /\ UNCHANGED <<mode, base_position, max_stocks, final_position_values, ts_row, streakVars, signalVars, sweepVars, rogerVars>>

TestSingleConfigStep ==
    /\ mode = "alloc"
    /\ ts_row <= NumDates
    /\ final_position_values' = [final_position_values EXCEPT ![ts_row] =
                                    TestSingleConfigRow(@, max_stocks)]
    /\ ts_row' = ts_row + 1
    /\ UNCHANGED <<mode, base_position, max_stocks, final_position, rs_date, streakVars, signalVars, sweepVars, rogerVars>>

NextAlloc == RunStrategyDate \/ TestSingleConfigStep

SpecAlloc == InitAlloc /\ [][NextAlloc]_vars

\* ------------------------------------------------------------- _streak
\* the function f itself, tabulated once (f @@ <<>> = f)
Table(f) == f @@ <<>>

Column(df, c) == Table([t \in DOMAIN df |-> df[t][c]])


\* NaN taken for True, as astype(bool) does without the fillna
FillFalse_NaNTrue(col) == [t \in DOMAIN col |-> col[t] # "False"]

\* col.fillna(False).astype(bool)
FillFalse(col) == [t \in DOMAIN col |-> col[t] = "True"]

\* astype(int) of a boolean
AsInt(b) == IF b THEN 1 ELSE 0

\* Series.cumsum()
CumSum(col) ==
    LET cs[t \in DOMAIN col] == IF t = 1 THEN col[1] ELSE cs[t - 1] + col[t]
    IN  cs

\* Series.groupby(groups).cumsum(): the running sum within each group label
GroupByCumSum(col, groups) ==
    LET part[t \in DOMAIN col, u \in 0..Cardinality(DOMAIN col)] ==
            IF u = 0 THEN 0
            ELSE part[t, u - 1] + (IF groups[u] = groups[t] THEN col[u] ELSE 0)
    IN  [t \in DOMAIN col |-> part[t, t]]

\* _col_streak
ColStreak(col) ==
    LET col_bool == Table(FillFalse(col))
        groups   == Table(CumSum([t \in DOMAIN col |-> AsInt(~col_bool[t])]))
    IN  GroupByCumSum([t \in DOMAIN col |-> AsInt(col_bool[t])], groups)

\* _streak: df.apply(_col_streak), _col_streak on every column and the results
\* put back side by side
Streak(df) ==
    LET columns == Table([c \in Stocks |-> Table(ColStreak(Column(df, c)))])
    IN  [t \in DOMAIN df |-> [c \in Stocks |-> columns[c][t]]]

InitStreak ==
    /\ mode = "streak"
    /\ AllocIdle /\ SignalIdle /\ SweepIdle /\ RogerIdle
    /\ max_stocks = 0
    /\ streak_df \in [StreakDays -> [Stocks -> Bool3]]
    /\ streak_result = None

CallStreak ==
    /\ mode = "streak"
    /\ streak_result = None
    /\ streak_result' = Streak(streak_df)
    /\ UNCHANGED <<mode, allocVars, max_stocks, streak_df, signalVars, sweepVars, rogerVars>>

NextStreak == CallStreak

SpecStreak == InitStreak /\ [][NextStreak]_vars

\* ------------------------------------------- look-ahead shift, hold-until
\* a boolean written into an object-dtype cell
ToCell(b) == IF b THEN "True" ELSE "False"

\* DataFrame.shift(1) of a boolean matrix: row t takes row t-1, the first row is NaN
Shift(df) ==
    [t \in Days |-> [c \in Stocks |-> IF t = 1 THEN NA ELSE ToCell(df[t - 1][c])]]

\* a matrix written cell by cell into object dtype, rows unmoved
AsCells(df) == [t \in Days |-> [c \in Stocks |-> ToCell(df[t][c])]]

\* the shift of the buy matrix left out
ShiftBuy_Missing(buy) == AsCells(buy)

\* the shift of the sell matrix left out
ShiftSell_Missing(sell) == [t \in Days |-> [c \in Stocks |-> ToCell(sell[t][c])]]

\* self.buy_signal.shift(1)
ShiftBuy(buy) == Shift(buy)

\* self.sell_signal.shift(1)
ShiftSell(sell) == Shift(sell)

\* the exit taking effect a row late: the sell row itself still held
HoldUntil_SellRowHeld(entry, exit) ==
    LET held[t \in 0..NumDays, c \in Stocks] ==
            IF t = 0 THEN FALSE
            ELSE LET buy  == entry[t][c] = "True"
                     sold == t > 1 /\ exit[t - 1][c] = "True"
                 IN  IF held[t - 1, c] THEN ~sold ELSE buy
    IN  [t \in Days |-> [c \in Stocks |-> held[t, c]]]

\* entry.hold_until(exit) of the finlab library, whose source is not part of the
\* repository: per column a two-state machine, flat at the start;
\* flat --buy--> held (a coincident sell is a no-op), held --sell--> flat (the exit
\* wins over a coincident buy); a missing cell is no event. Row t holds the state
\* after row t's events.
HoldUntil(entry, exit) ==
    LET held[t \in 0..NumDays, c \in Stocks] ==
            IF t = 0 THEN FALSE
            ELSE LET buy  == entry[t][c] = "True"
                     sell == exit[t][c] = "True"
                 IN  IF held[t - 1, c] THEN ~sell ELSE buy
    IN  [t \in Days |-> [c \in Stocks |-> held[t, c]]]

\* the buy and sell matrices given directly, construction about to shift them
InitHold ==
    /\ mode = "hold"
    /\ AllocIdle /\ StreakIdle /\ SweepIdle /\ RogerIdle
    /\ max_stocks = 0
    /\ pc = "built"
    /\ market_data = None
    /\ buy_condition \in [Days -> [Stocks -> BOOLEAN]]
    /\ sell_condition \in [Days -> [Stocks -> BOOLEAN]]
    /\ buy_signal = None /\ sell_signal = None

\* __init__, lines 66-73: the shift of both signals, then hold_until
ShiftAndHold ==
    /\ mode \in {"hold", "oscar"}
    /\ pc = "built"
    /\ buy_signal' = ShiftBuy(buy_condition)
    /\ sell_signal' = ShiftSell(sell_condition)
    /\ base_position' = HoldUntil(buy_signal', sell_signal')
    /\ pc' = "held"
    /\ UNCHANGED <<mode, max_stocks, final_position, rs_date, final_position_values,
                   ts_row, streakVars, market_data, buy_condition, sell_condition,
                   sweepVars, rogerVars>>

NextHold == ShiftAndHold

SpecHold == InitHold /\ [][NextHold]_vars

\* ------------------------------------------- OscarTWStrategy: the signals
\* a float cell: a number or NaN
Num(x) == [nan |-> FALSE, v |-> x]
NaNum  == [nan |-> TRUE, v |-> 0]

\* float comparisons: any comparison with NaN is False
Lt(a, b) == ~a.nan /\ ~b.nan /\ a.v < b.v
Gt(a, b) == ~a.nan /\ ~b.nan /\ a.v > b.v
Le(a, b) == ~a.nan /\ ~b.nan /\ a.v <= b.v
Ge(a, b) == ~a.nan /\ ~b.nan /\ a.v >= b.v

\* one field of market_data as a matrix
Field(md, name) == [t \in Days |-> [c \in Stocks |-> md[t][c][name]]]

\* DataFrame.shift(1) of a float matrix
ShiftNum(df) == [t \in Days |-> [c \in Stocks |-> IF t = 1 THEN NaNum ELSE df[t - 1][c]]]

\* the constructor's sar_max_dots
sar_max_dots == 2

\* new_high_ratio_120 > 0.3, the ratio held as the count of new-high days of the
\* 120-day window (NaN while the window is incomplete)
HighWindow == 120
ConstantlyNewHigh(new_high_days) ==
    ~new_high_days.nan /\ 10 * new_high_days.v > 3 * HighWindow

\* sar < adj_close
SarBelowPrice(md) ==
    [t \in Days |-> [c \in Stocks |-> Lt(md[t][c].sar, md[t][c].adj_close)]]

\* _calculate_sar_condition: sar_buy_condition
SarBuyCondition(md) ==
    LET sar_streak == Table(Streak(AsCells(SarBelowPrice(md))))
    IN  [t \in Days |-> [c \in Stocks |->
            /\ sar_streak[t][c] >= 1 /\ sar_streak[t][c] <= sar_max_dots
            /\ ~ConstantlyNewHigh(md[t][c].new_high_days)]]

\* the negation lost: the sell condition True where the level is below price
SarSellCondition_NotNegated(md) == SarBelowPrice(md)

\* _calculate_sar_condition: sar_sell_condition = ~sar_below_price
SarSellCondition(md) ==
    LET sar_below_price == SarBelowPrice(md)
    IN  [t \in Days |-> [c \in Stocks |-> ~sar_below_price[t][c]]]

\* _calculate_macd_condition: the golden cross
MacdBuyCondition(md) ==
    LET dif == Field(md, "dif")
        dea == Field(md, "dea")
        dif_shift == Table(ShiftNum(dif))
        dea_shift == Table(ShiftNum(dea))
    IN  [t \in Days |-> [c \in Stocks |->
            Gt(dif[t][c], dea[t][c]) /\ Le(dif_shift[t][c], dea_shift[t][c])]]

\* _calculate_macd_condition: the death cross
MacdSellCondition(md) ==
    LET dif == Field(md, "dif")
        dea == Field(md, "dea")
        dif_shift == Table(ShiftNum(dif))
        dea_shift == Table(ShiftNum(dea))
    IN  [t \in Days |-> [c \in Stocks |->
            Lt(dif[t][c], dea[t][c]) /\ Ge(dif_shift[t][c], dea_shift[t][c])]]

\* _calculate_volume_condition, avg_volume_30 being volume.rolling(30).mean()
\* (NaN until 30 days of data exist): volume > avg * 0.5, avg > 1000000,
\* volume < avg * 10
LiquidityFloor == 1000000
VolumeCondition(md) ==
    [t \in Days |-> [c \in Stocks |->
        LET volume == md[t][c].volume
            avg    == md[t][c].avg_volume_30
        IN  /\ ~volume.nan /\ ~avg.nan
            /\ 2 * volume.v > avg.v
            /\ avg.v > LiquidityFloor
            /\ volume.v < avg.v * 10]]

\* _calculate_institutional_condition: buy_count
BuyCount(cell) ==
    AsInt(Gt(cell.foreign, Num(0))) + AsInt(Gt(cell.trust, Num(0)))
        + AsInt(Gt(cell.dealer, Num(0)))

\* institutional_weak_condition = buy_count >= 2
InstitutionalWeak(md) == [t \in Days |-> [c \in Stocks |-> BuyCount(md[t][c]) >= 2]]

\* _build_buy_condition
BuildBuyCondition(md) ==
    LET sar_buy   == Table(SarBuyCondition(md))
        macd_buy  == Table(MacdBuyCondition(md))
        volume_ok == Table(VolumeCondition(md))
        weak      == Table(InstitutionalWeak(md))
    IN  [t \in Days |-> [c \in Stocks |->
            (sar_buy[t][c] /\ macd_buy[t][c] /\ volume_ok[t][c]) /\ weak[t][c]]]

\* _build_sell_condition
BuildSellCondition(md) ==
    LET sar_sell  == Table(SarSellCondition(md))
        macd_sell == Table(MacdSellCondition(md))
    IN  [t \in Days |-> [c \in Stocks |-> sar_sell[t][c] \/ macd_sell[t][c]]]

\* the indicator values a stock can show on one day: the trend level below price,
\* above price or missing; the fast line above the slow one, below it or missing
SarFeeds ==
    { [sar |-> Num(1), adj_close |-> Num(2)],
      [sar |-> Num(3), adj_close |-> Num(2)],
      [sar |-> NaNum,  adj_close |-> Num(2)] }

MacdFeeds ==
    { [dif |-> Num(1), dea |-> Num(0)],
      [dif |-> Num(0), dea |-> Num(1)],
      [dif |-> NaNum,  dea |-> NaNum] }

\* the volume, institutional and new-high figures of a stock: liquid with two
\* institutions buying; a 30-day window still incomplete; one institution buying;
\* a price making new highs on half of the last 120 days
FilterFeeds ==
    { [volume |-> Num(2000000), avg_volume_30 |-> Num(1500000), new_high_days |-> Num(0),
       foreign |-> Num(100), trust |-> Num(50), dealer |-> Num(-20)],
      [volume |-> Num(2000000), avg_volume_30 |-> NaNum, new_high_days |-> NaNum,
       foreign |-> Num(100), trust |-> Num(50), dealer |-> Num(-20)],
      [volume |-> Num(2000000), avg_volume_30 |-> Num(1500000), new_high_days |-> Num(0),
       foreign |-> Num(100), trust |-> Num(-5), dealer |-> NaNum],
      [volume |-> Num(2000000), avg_volume_30 |-> Num(1500000), new_high_days |-> Num(60),
       foreign |-> Num(100), trust |-> Num(50), dealer |-> Num(30)] }

\* a cell of market_data
Cell(sf, mf, ff) ==
    [sar |-> sf.sar, adj_close |-> sf.adj_close, dif |-> mf.dif, dea |-> mf.dea,
     volume |-> ff.volume, avg_volume_30 |-> ff.avg_volume_30,
     new_high_days |-> ff.new_high_days,
     foreign |-> ff.foreign, trust |-> ff.trust, dealer |-> ff.dealer]

\* a stock with no data at all
NoData ==
    [sar |-> NaNum, adj_close |-> NaNum, dif |-> NaNum, dea |-> NaNum,
     volume |-> NaNum, avg_volume_30 |-> NaNum, new_high_days |-> NaNum,
     foreign |-> NaNum, trust |-> NaNum, dealer |-> NaNum]

\* construction after _load_data: S1 has data on every day, S2 none at all
InitOscar ==
    /\ mode = "oscar"
    /\ AllocIdle /\ StreakIdle /\ SweepIdle /\ RogerIdle
    /\ max_stocks = 0
    /\ pc = "load"
    /\ \E ff \in FilterFeeds :
       \E sfs \in [Days -> SarFeeds], mfs \in [Days -> MacdFeeds] :
          market_data = [t \in Days |-> [c \in Stocks |->
                            IF c = "S1" THEN Cell(sfs[t], mfs[t], ff) ELSE NoData]]
    /\ buy_condition = None /\ sell_condition = None
    /\ buy_signal = None /\ sell_signal = None

\* __init__, lines 62-64
BuildSignals ==
    /\ mode = "oscar"
    /\ pc = "load"
    /\ buy_condition' = BuildBuyCondition(market_data)
    /\ sell_condition' = BuildSellCondition(market_data)
    /\ pc' = "built"
    /\ UNCHANGED <<mode, max_stocks, allocVars, streakVars, market_data, buy_signal,
                   sell_signal, sweepVars, rogerVars>>

NextOscar == BuildSignals \/ ShiftAndHold

SpecOscar == InitOscar /\ [][NextOscar]_vars

\* ------------------------------------------------- the parameter sweeps
Tasks == 1..NumTasks

\* how a task can end: the worker returns its result dict; the worker's own
\* try/except catches a failure and returns None; the future itself raises
\* (the worker process died, the result could not be sent back)
Outcomes == {"result", "caught", "broken"}

Failed(t) == task[t] \in {"caught", "broken"}

\* the worker's except clause: _test_single_config calls logger.error,
\* _test_single_stock fails silently
WorkerLogs(kind, outcome) == kind = "max_stock" /\ outcome = "caught"

\* the body of the as_completed loop for a finished task: <<appended, logged>>.
\* run_test raises ValueError on a None result and logs it in its except clause;
\* _run_tests_and_save skips a None result and logs only what future.result() raises
CollectOne(kind, outcome) ==
    IF outcome = "result" THEN <<TRUE, FALSE>>
    ELSE IF outcome = "broken" THEN <<FALSE, TRUE>>
    ELSE IF kind = "max_stock" THEN <<FALSE, TRUE>>
    ELSE <<FALSE, FALSE>>

\* what follows the loop. run_test: _save_results when results is non-empty, a
\* warning otherwise. _run_tests_and_save: pd.DataFrame(results).sort_values(
\* by='annual_return'), a KeyError on the column-less frame of an empty list
AfterLoop(kind, res) ==
    IF kind = "single_stock" /\ Len(res) = 0 THEN "KeyError" ELSE "done"

InitSweep ==
    /\ mode = "sweep"
    /\ AllocIdle /\ StreakIdle /\ SignalIdle /\ RogerIdle
    /\ max_stocks = 0
    /\ sweep \in {"max_stock", "single_stock"}
    /\ task = [t \in Tasks |-> "queued"]
    /\ collected = {}
    /\ results = <<>>
    /\ logged = {}
    /\ sweep_pc = "collect"

\* a free worker of the pool takes a submitted task
StartTask(t) ==
    /\ mode = "sweep"
    /\ task[t] = "queued"
    /\ Cardinality({u \in Tasks : task[u] = "running"}) < PoolSize
    /\ task' = [task EXCEPT ![t] = "running"]
    /\ UNCHANGED <<mode, max_stocks, allocVars, streakVars, signalVars, rogerVars, sweep,
                   collected, results, logged, sweep_pc>>

\* _test_single_config / _test_single_stock runs to its end in the worker
FinishTask(t, outcome) ==
    /\ mode = "sweep"
    /\ task[t] = "running"
    /\ task' = [task EXCEPT ![t] = outcome]
    /\ logged' = IF WorkerLogs(sweep, outcome) THEN logged \cup {t} ELSE logged
    /\ UNCHANGED <<mode, max_stocks, allocVars, streakVars, signalVars, rogerVars, sweep,
                   collected, results, sweep_pc>>

\* one iteration of `for future in as_completed(...)`
Collect(t) ==
    /\ mode = "sweep"
    /\ sweep_pc = "collect"
    /\ task[t] \in Outcomes
    /\ t \notin collected
    /\ collected' = collected \cup {t}
    /\ results' = IF CollectOne(sweep, task[t])[1] THEN Append(results, t) ELSE results
    /\ logged' = IF CollectOne(sweep, task[t])[2] THEN logged \cup {t} ELSE logged
    /\ UNCHANGED <<mode, max_stocks, allocVars, streakVars, signalVars, rogerVars, sweep,
                   task, sweep_pc>>

\* the loop is exhausted: the aggregate is saved
FinishSweep ==
    /\ mode = "sweep"
    /\ sweep_pc = "collect"
    /\ collected = Tasks
    /\ sweep_pc' = AfterLoop(sweep, results)
    /\ UNCHANGED <<mode, max_stocks, allocVars, streakVars, signalVars, rogerVars, sweep,
                   task, collected, results, logged>>

NextSweep ==
    \/ \E t \in Tasks : StartTask(t)
    \/ \E t \in Tasks, o \in Outcomes : FinishTask(t, o)
    \/ \E t \in Tasks : Collect(t)
    \/ FinishSweep

SpecSweep == InitSweep /\ [][NextSweep]_vars

\* ------------------------------------- RogerTWStrategyBase: construction
\* the weekdays config.yaml may hold
CfgWeekdays == (1 - WeekdayReach)..(5 + WeekdayReach)

\* len('一二三四五')
WeekdayNames == 5

\* s[i] of a Python string of length n raises IndexError unless -n <= i < n
PyIndexOK(i, n) == -n <= i /\ i < n

\* __init__: the weekdays are stored one less than configured; the print that
\* follows indexes the five weekday names with both and is all that can raise
ConstructOutcome(c) ==
    LET buy_weekday  == c.buy_weekday - 1
        sell_weekday == c.sell_weekday - 1
    IN  IF PyIndexOK(buy_weekday, WeekdayNames) /\ PyIndexOK(sell_weekday, WeekdayNames)
        THEN [pc |-> "constructed",
              self |-> [buy_weekday |-> buy_weekday, sell_weekday |-> sell_weekday]]
        ELSE [pc |-> "IndexError", self |-> None]

InitRogerNew ==
    /\ mode = "roger_init"
    /\ AllocIdle /\ StreakIdle /\ SignalIdle /\ SweepIdle
    /\ max_stocks = 0
    /\ cfg \in [buy_weekday : CfgWeekdays, sell_weekday : CfgWeekdays]
    /\ strategy = None
    /\ roger_pc = "new"
    /\ recommendation_records = <<>> /\ rec_i = 0 /\ weekly_batches = <<>>
    /\ records = None /\ position = None
    /\ CallIdle

\* RogerTWStrategyBase.__init__
Construct ==
    /\ mode = "roger_init"
    /\ roger_pc = "new"
    /\ roger_pc' = ConstructOutcome(cfg).pc
    /\ strategy' = ConstructOutcome(cfg).self
    /\ UNCHANGED <<mode, max_stocks, allocVars, streakVars, signalVars, sweepVars, cfg,
                   recommendation_records, rec_i, weekly_batches, records, position,
                   callVars>>

NextRogerNew == Construct

SpecRogerNew == InitRogerNew /\ [][NextRogerNew]_vars

\* ------------------------------- RogerTWStrategyBase: the recommendations
\* Calendar dates are days counted from a Monday: day 0 is a Monday.
\* Timestamp.weekday(): Monday 0 .. Sunday 6
Weekday(d) == d % 7

\* the off-by-one: Sunday sent to the Sunday a week later
AlignedDate_NextWeek(dt) == dt + 7 - Weekday(dt)

\* lines 41-42: the Sunday at or after dt
AlignedDate(dt) ==
    LET days_to_sunday == 6 - Weekday(dt)
    IN  dt + days_to_sunday

\* the tradable universe (universe.columns); "C" is an id outside it
Universe == {"A", "B"}

\* a recommended stock: an id ("" when it has none) and a priority that may be absent
Stock(id, has_priority, priority) ==
    [id |-> id, has_priority |-> has_priority, priority |-> priority]

\* the stock lists a record can carry: none; one stock; two stocks listed against
\* their priority; a stock without priority ahead of one with; a stock without id
StockLists ==
    { <<>>,
      <<Stock("A", TRUE, 1)>>,
      <<Stock("B", TRUE, 2), Stock("A", TRUE, 1)>>,
      <<Stock("C", FALSE, 0), Stock("B", TRUE, 1)>>,
      <<Stock("", TRUE, 1)>>,
      <<Stock("", TRUE, 1), Stock("A", TRUE, 2)>> }

\* the dates a record can carry: Monday, Wednesday and Sunday of the first week,
\* Monday and Sunday of the second
RecordDates == {0, 2, 6, 7, 13}

\* a RecommendationRecord; has_date is FALSE for a record whose date is None
Records ==
    [has_date : {TRUE}, date : RecordDates, stocks : StockLists]
        \cup {[has_date |-> FALSE, date |-> 0, stocks |-> <<Stock("A", TRUE, 1)>>]}

\* `if not date or not stocks: continue`
Skipped(record) == ~record.has_date \/ Len(record.stocks) = 0

\* the replacement made whatever the dates: the record loaded last wins
ReplacesExisting_Always(dt, existing_original_date) == TRUE

\* `if dt > existing_original_date`
ReplacesExisting(dt, existing_original_date) == dt > existing_original_date

\* one iteration of the loop of lines 33-56 on the dict weekly_batches
FoldOne(batches, record) ==
    IF Skipped(record) THEN batches
    ELSE LET dt           == record.date
             aligned_date == AlignedDate(dt)
         IN  IF aligned_date \in DOMAIN batches
             THEN IF ReplacesExisting(dt, batches[aligned_date][1])
                  THEN [batches EXCEPT ![aligned_date] = <<dt, record.stocks>>]
                  ELSE batches
             ELSE (aligned_date :> <<dt, record.stocks>>) @@ batches

\* getattr(x, 'priority', float('inf')) compared: a before b
PriorityBefore(a, b) ==
    a.has_priority /\ (~b.has_priority \/ a.priority < b.priority)

\* the sort lost: the candidates in the order the record lists them
SortedByPriority_Unsorted(stock_list) == stock_list

\* sorted(stock_list, key=priority): stable, by insertion
RECURSIVE SortedByPriority(_)
SortedByPriority(stock_list) ==
    IF Len(stock_list) = 0 THEN <<>>
    ELSE LET head == SortedByPriority(SubSeq(stock_list, 1, Len(stock_list) - 1))
             x    == stock_list[Len(stock_list)]
             keep == {i \in 1..Len(head) : ~PriorityBefore(x, head[i])}
             n    == Cardinality({i \in 1..Len(head) : \A j \in 1..i : j \in keep})
         IN  SubSeq(head, 1, n) \o <<x>> \o SubSeq(head, n + 1, Len(head))

\* lines 60-67 for one batch: the ids appended to `records`, in order
WrittenIds(stock_list, k) ==
    LET kept    == PySlicePrefix(SortedByPriority(stock_list), k)
        written == SelectSeq(kept, LAMBDA stock : stock.id # "")
    IN  [i \in 1..Len(written) |-> written[i].id]

\* the slice `[: self.max_stocks]` lost: every candidate with an id is written
BatchIds_NoCap(stock_list, k) ==
    {stock_list[i].id : i \in {j \in 1..Len(stock_list) : stock_list[j].id # ""}}

\* lines 60-67 for one batch: the stock_id values of its rows in `records`
BatchIds(stock_list, k) ==
    LET written == WrittenIds(stock_list, k)
    IN  {written[i] : i \in 1..Len(written)}

\* lines 58-67: what the loop over weekly_batches appends to `records`
RecordsOf(batches, k) ==
    [key \in DOMAIN batches |-> WrittenIds(batches[key][2], k)]

\* lines 58-90: None when records is empty; otherwise the pivot of records by
\* aligned_date, resampled to days with forward fill, extended with forward fill
\* to the latest market date, its columns reindexed to the universe, as booleans
CreatePositionDf(batches, k) ==
    LET rows  == {key \in DOMAIN batches : BatchIds(batches[key][2], k) # {}}
    IN  IF rows = {} THEN None
        ELSE LET first == CHOOSE d \in rows : \A e \in rows : d <= e
                 last  == CHOOSE d \in rows : \A e \in rows : d >= e
                 end   == Max(last, LastMarketDay)
                 at(d) == CHOOSE key \in rows :
                              key <= d /\ \A e \in rows : e <= d => e <= key
             IN  [d \in first..end |->
                     [c \in Universe |-> c \in BatchIds(batches[at(d)][2], k)]]

\* the mask lost: every row kept
ApplyTradingWindow_NoMask(pos, buy, sell) == pos

\* _apply_trading_window on a position matrix
ApplyTradingWindow(pos, buy, sell) ==
    IF buy = sell THEN pos
    ELSE LET mask(d) == IF buy < sell
                        THEN Weekday(d) >= buy /\ Weekday(d) < sell
                        ELSE Weekday(d) >= buy \/ Weekday(d) < sell
         IN  [d \in DOMAIN pos |-> [c \in Universe |-> mask(d) /\ pos[d][c]]]

\* position.shift(-1): row d takes row d+1, the last row is NaN
ShiftBack(pos) ==
    [d \in DOMAIN pos |-> [c \in Universe |->
        IF d + 1 \in DOMAIN pos THEN ToCell(pos[d + 1][c]) ELSE NA]]

\* run_strategy, lines 114-118, on what _create_position_df returned: None has
\* neither .index nor .shift
FinishRunStrategy(pos, self) ==
    IF pos = None THEN [pc |-> "AttributeError", position |-> None]
    ELSE LET windowed == IF self.buy_weekday # self.sell_weekday
                         THEN ApplyTradingWindow(pos, self.buy_weekday, self.sell_weekday)
                         ELSE pos
         IN  [pc |-> "done", position |-> ShiftBack(windowed)]

\* the weekday pairs of a constructed strategy: the default Monday-Friday window,
\* a window wrapping over the week end, and buy and sell on the same weekday
WeekdayPairs ==
    { [buy_weekday |-> 0, sell_weekday |-> 4],
      [buy_weekday |-> 3, sell_weekday |-> 1],
      [buy_weekday |-> 2, sell_weekday |-> 2] }

RecordLists == UNION {[1..n -> Records] : n \in 0..MaxRecords}

\* a constructed strategy entering run_strategy, the DAO's records loaded
InitRoger ==
    /\ mode = "roger"
    /\ AllocIdle /\ StreakIdle /\ SignalIdle /\ SweepIdle
    /\ max_stocks \in 1..MaxRogerStocks
    /\ cfg = None
    /\ strategy \in WeekdayPairs
    /\ roger_pc = "fold"
    /\ recommendation_records \in RecordLists
    /\ rec_i = 1
    /\ weekly_batches = <<>>
    /\ records = None /\ position = None
    /\ CallIdle

\* _create_position_df, lines 33-56: one record of the loop
FoldRecord ==
    /\ mode = "roger"
    /\ roger_pc = "fold"
    /\ rec_i <= Len(recommendation_records)
    /\ weekly_batches' = FoldOne(weekly_batches, recommendation_records[rec_i])
    /\ rec_i' = rec_i + 1
    /\ UNCHANGED <<mode, max_stocks, allocVars, streakVars, signalVars, sweepVars, cfg,
                   strategy, roger_pc, recommendation_records, records, position,
                   callVars>>

\* _create_position_df, lines 58-90
CreatePosition ==
    /\ mode = "roger"
    /\ roger_pc = "fold"
    /\ rec_i > Len(recommendation_records)
    /\ records' = RecordsOf(weekly_batches, max_stocks)
    /\ position' = CreatePositionDf(weekly_batches, max_stocks)
    /\ roger_pc' = "created"
    /\ UNCHANGED <<mode, max_stocks, allocVars, streakVars, signalVars, sweepVars, cfg,
                   strategy, recommendation_records, rec_i, weekly_batches, callVars>>

\* run_strategy, lines 114-118
FinishRun ==
    /\ mode = "roger"
    /\ roger_pc = "created"
    /\ roger_pc' = FinishRunStrategy(position, strategy).pc
    /\ position' = FinishRunStrategy(position, strategy).position
    /\ UNCHANGED <<mode, max_stocks, allocVars, streakVars, signalVars, sweepVars, cfg,
                   strategy, recommendation_records, rec_i, weekly_batches, records,
                   callVars>>

NextRoger == FoldRecord \/ CreatePosition \/ FinishRun

SpecRoger == InitRoger /\ [][NextRoger]_vars

\* ------------------------------- _apply_trading_window on its own
NumWindowDays == 7
WindowDays == 0..(NumWindowDays - 1)

\* the rows of the matrix given to _apply_trading_window
WindowRows ==
    { [c \in Universe |-> FALSE], [c \in Universe |-> c = "A"], [c \in Universe |-> TRUE] }

\* buy_weekday and sell_weekday after __init__, for configured weekdays 1..5
TradingWeekdays == 0..4

InitWindow ==
    /\ mode = "window"
    /\ AllocIdle /\ StreakIdle /\ SignalIdle /\ SweepIdle
    /\ max_stocks = 0
    /\ cfg = None
    /\ strategy \in [buy_weekday : TradingWeekdays, sell_weekday : TradingWeekdays]
    /\ roger_pc = "window"
    /\ recommendation_records = <<>> /\ rec_i = 0 /\ weekly_batches = <<>>
    /\ records = None
    /\ window_input \in [WindowDays -> WindowRows]
    /\ position = None
    /\ align_dt = None /\ align_key = None

\* position = self._apply_trading_window(position)
CallApplyTradingWindow ==
    /\ mode = "window"
    /\ roger_pc = "window"
    /\ position' = ApplyTradingWindow(window_input, strategy.buy_weekday,
                                      strategy.sell_weekday)
    /\ roger_pc' = "windowed"
    /\ UNCHANGED <<mode, max_stocks, allocVars, streakVars, signalVars, sweepVars, cfg,
                   strategy, recommendation_records, rec_i, weekly_batches, records,
                   callVars>>

NextWindow == CallApplyTradingWindow

SpecWindow == InitWindow /\ [][NextWindow]_vars

\* ------------------------------- the weekly alignment on its own
NumAlignDays == 14
AlignDays == 0..(NumAlignDays - 1)

InitAlign ==
    /\ mode = "align"
    /\ AllocIdle /\ StreakIdle /\ SignalIdle /\ SweepIdle
    /\ max_stocks = 0
    /\ cfg = None /\ strategy = None
    /\ roger_pc = "align"
    /\ recommendation_records = <<>> /\ rec_i = 0 /\ weekly_batches = <<>>
    /\ records = None /\ position = None
    /\ window_input = None
    /\ align_dt \in AlignDays \X AlignDays
    /\ align_key = None

\* lines 39-42 for each of the two dates
Align ==
    /\ mode = "align"
    /\ roger_pc = "align"
    /\ align_key' = <<AlignedDate(align_dt[1]), AlignedDate(align_dt[2])>>
    /\ roger_pc' = "aligned"
    /\ UNCHANGED <<mode, max_stocks, allocVars, streakVars, signalVars, sweepVars, cfg,
                   strategy, recommendation_records, rec_i, weekly_batches, records,
                   position, window_input, align_dt>>

NextAlign == Align

SpecAlign == InitAlign /\ [][NextAlign]_vars

\* ---------------------------------------------------------------- claims
EligibleCount(d) == Cardinality({c \in Cols : base_position[d][c]})
HeldCount(m, d)  == Cardinality({c \in Cols : m[d][c]})

\* C1: on every date the allocator has processed, in both the run_strategy loop
\* and the _test_single_config truncation, the number of selected instruments is
\* at most K and is exactly min(K, eligible_count) of that date's row.
C1_CapacityRespected ==
    /\ \A d \in Dates : d < rs_date =>
          /\ HeldCount(final_position, d) <= max_stocks
          /\ HeldCount(final_position, d) = Min(max_stocks, EligibleCount(d))
    /\ \A d \in Dates : d < ts_row =>
          /\ HeldCount(final_position_values, d) <= max_stocks
          /\ HeldCount(final_position_values, d) = Min(max_stocks, EligibleCount(d))

\* both loops finished, with one date over capacity and one date under it
C1_Witness ==
    /\ rs_date > NumDates /\ ts_row > NumDates
    /\ \E d \in Dates : EligibleCount(d) > max_stocks
    /\ \E d \in Dates : EligibleCount(d) > 0 /\ EligibleCount(d) < max_stocks

\* the first k True columns of a row, in column order
FirstKEligible(row, k) ==
    {c \in Cols : row[c] /\ Cardinality({b \in Cols : b < c /\ row[b]}) < k}

HeldSet(m, d) == {c \in Cols : m[d][c]}

RunLength(df, t, c) ==
    Cardinality({u \in 1..t : \A v \in u..t : df[v][c] = "True"})

\* df with every column but c replaced by the column other
OnlyColumn(df, c, other) ==
    [t \in DOMAIN df |-> [x \in Stocks |-> IF x = c THEN df[t][c] ELSE other[t]]]

\* C6: _streak returns a matrix S of the same shape with S[t,c] the number of
\* consecutive True cells of column c ending at row t: 0 where B[t,c] is False or
\* missing, S[t-1,c] + 1 where it is True (1 on the first row of a run), never
\* negative, and column c of S is decided by column c of B alone.
C6_StreakCounts ==
    streak_result # None =>
        /\ DOMAIN streak_result = StreakDays
        /\ \A t \in StreakDays : DOMAIN streak_result[t] = Stocks
        /\ \A t \in StreakDays, c \in Stocks :
              /\ streak_result[t][c] >= 0
              /\ streak_result[t][c] = RunLength(streak_df, t, c)
              /\ streak_df[t][c] # "True" => streak_result[t][c] = 0
              /\ streak_df[t][c] = "True" =>
                    streak_result[t][c] = (IF t = 1 THEN 0 ELSE streak_result[t - 1][c]) + 1
        /\ \A c \in Stocks : \A other \in [StreakDays -> Bool3] :
              Column(Streak(OnlyColumn(streak_df, c, other)), c) = Column(streak_result, c)

\* a column with a run of two, a missing cell that resets it, and a new run
C6_Witness ==
    /\ streak_result # None
    /\ \E c \in Stocks :
          /\ streak_df[1][c] = "True" /\ streak_df[2][c] = NA /\ streak_df[3][c] = "True"
          /\ streak_result[1][c] = 1 /\ streak_result[2][c] = 0 /\ streak_result[3][c] = 1
    /\ \E c \in Stocks :
          /\ streak_df[1][c] = "False" /\ streak_df[2][c] = "True" /\ streak_df[3][c] = "True"
          /\ streak_result[3][c] = 2

\* the rows on which column c of an event matrix holds True
EventRows(m, c) == {t \in Days : m[t][c] = "True"}

\* C2: for an instrument whose only events are one buy event at row t1 and one
\* sell event at row t2 > t1, base_position = buy.hold_until(sell) is True on
\* exactly the rows t with t1 <= t < t2.
C2_HeldExactlyBetween ==
    pc = "held" =>
        \A c \in Stocks : \A t1, t2 \in Days :
            (t1 < t2 /\ EventRows(buy_signal, c) = {t1} /\ EventRows(sell_signal, c) = {t2})
                => \A t \in Days : base_position[t][c] <=> (t1 <= t /\ t < t2)

\* an instrument bought on one row and sold two rows later, held on both rows between
C2_Witness ==
    /\ pc = "held"
    /\ \E c \in Stocks : \E t1 \in Days :
          /\ t1 + 2 \in Days
          /\ EventRows(buy_signal, c) = {t1} /\ EventRows(sell_signal, c) = {t1 + 2}
          /\ base_position[t1][c] /\ base_position[t1 + 1][c] /\ ~base_position[t1 + 2][c]

\* hold-until first, then the one-period shift with the first row flat
HoldThenShift(buy, sell) ==
    LET held_first == HoldUntil(AsCells(buy), AsCells(sell))
    IN  [t \in Days |-> [c \in Stocks |-> IF t = 1 THEN FALSE ELSE held_first[t - 1][c]]]

\* C3: for every pair of buy/sell event matrices, shifting both forward one
\* period and then applying hold-until (as __init__ does) gives the PositionState
\* that hold-until followed by a one-period shift of the result gives.
C3_ShiftCommutes ==
    pc = "held" => base_position = HoldThenShift(buy_condition, sell_condition)

\* a pair of matrices with a buy and a sell on the same day and a held row after the shift
C3_Witness ==
    /\ pc = "held"
    /\ \E c \in Stocks : \E t \in Days :
          /\ buy_condition[t][c] /\ sell_condition[t][c]
          /\ t + 1 \in Days /\ base_position[t + 1][c]
    /\ \E c \in Stocks : \E t \in Days : t > 1 /\ base_position[t - 1][c] /\ ~base_position[t][c]

\* C5: a buy decision computed from day T first affects base_position on day T+1:
\* no instrument is held on a day unless its composed buy condition was True on an
\* earlier day, and when the composed buy condition of an instrument is True on
\* day D1 only, base_position is False up to and including D1 and True on the
\* next trading day D2.
C5_BuyTakesEffectNextDay ==
    (mode = "oscar" /\ pc = "held") =>
        /\ \A c \in Stocks, t \in Days :
              base_position[t][c] => \E u \in Days : u < t /\ buy_condition[u][c]
        /\ \A c \in Stocks, d1 \in Days :
              {t \in Days : buy_condition[t][c]} = {d1} =>
                  /\ \A t \in Days : t <= d1 => ~base_position[t][c]
                  /\ (d1 + 1 \in Days) => base_position[d1 + 1][c]

\* Scenario A: S1 alone has its composed buy condition True, on one day only, and is
\* flat that day and held the next
C5_Witness ==
    /\ mode = "oscar" /\ pc = "held"
    /\ \E d1 \in Days :
          /\ d1 + 1 \in Days
          /\ {t \in Days : buy_condition[t]["S1"]} = {d1}
          /\ \A t \in Days : ~buy_condition[t]["S2"]
          /\ ~base_position[d1]["S1"] /\ base_position[d1 + 1]["S1"]

SweepOver == mode = "sweep" /\ sweep_pc \notin {"idle", "collect"}

\* C8: in both sweeps, for every set of failing tasks and every completion order,
\* each failing task is caught and logged, its result is left out of the aggregate,
\* every other task's result is collected, and the sweep ends without raising,
\* also when every task fails.
C8_FailuresIsolated ==
    SweepOver =>
        /\ sweep_pc = "done"
        /\ \A t \in Tasks : Failed(t) => t \in logged
        /\ SeqToSet(results) = {t \in Tasks : ~Failed(t)}

\* the weekdays a configuration may name: 1 (Monday) to 5 (Friday)
ValidCfgWeekday(w) == 1 <= w /\ w <= 5

\* C10: a configured buy_weekday or sell_weekday outside the valid range is
\* rejected at construction time; no strategy object is created holding an
\* out-of-range weekday.
C10_WeekdayRejected ==
    (mode = "roger_init" /\ roger_pc = "constructed") =>
        /\ ValidCfgWeekday(cfg.buy_weekday) /\ ValidCfgWeekday(cfg.sell_weekday)
        /\ strategy.buy_weekday \in 0..4 /\ strategy.sell_weekday \in 0..4

\* the loaded records that pass `if not date or not stocks`
Parsed == {i \in 1..Len(recommendation_records) : ~Skipped(recommendation_records[i])}

\* the parsed records aligned to the period key
OfPeriod(key) == {i \in Parsed : AlignedDate(recommendation_records[i].date) = key}

\* C4: of two records aligned to the same period key with different original
\* dates, the batch kept for the period is never the earlier one's: it holds the
\* original date and stock list of the period's latest-dated record, in whichever
\* order the DAO returned them.
C4_LatestRecordKept ==
    (mode = "roger" /\ rec_i > Len(recommendation_records)) =>
        \A key \in DOMAIN weekly_batches :
            /\ \A i \in OfPeriod(key) :
                  recommendation_records[i].date <= weekly_batches[key][1]
            /\ \E j \in OfPeriod(key) :
                  /\ recommendation_records[j].date = weekly_batches[key][1]
                  /\ recommendation_records[j].stocks = weekly_batches[key][2]

\* Scenario C with the later record loaded first: Wednesday's list, then Monday's
\* different list, and the week's batch holds Wednesday's
C4_Witness ==
    /\ mode = "roger" /\ rec_i > Len(recommendation_records)
    /\ Len(recommendation_records) >= 2
    /\ recommendation_records[1].has_date /\ recommendation_records[1].date = 2
    /\ recommendation_records[2].has_date /\ recommendation_records[2].date = 0
    /\ Len(recommendation_records[1].stocks) > 0
    /\ Len(recommendation_records[2].stocks) > 0
    /\ recommendation_records[1].stocks # recommendation_records[2].stocks
    /\ 6 \in DOMAIN weekly_batches
    /\ weekly_batches[6] = <<2, recommendation_records[1].stocks>>

\* no record survives parsing: none has a date, a stock list and a stock id
NoneSurvives ==
    \A i \in Parsed : \A n \in 1..Len(recommendation_records[i].stocks) :
        recommendation_records[i].stocks[n].id = ""

\* C9: when the recommendation input is empty or no record survives parsing,
\* run_strategy ends without an error, with an empty or no-signal position.
C9_EmptyInputNoError ==
    (mode = "roger" /\ roger_pc \notin {"fold", "created"} /\ NoneSurvives) =>
        roger_pc = "done"

OscarBuilt == mode = "oscar" /\ pc \in {"built", "held"}

\* the trend level or the price is missing
SarInputMissing(t, c) == market_data[t][c].sar.nan \/ market_data[t][c].adj_close.nan

\* the fast or the slow oscillator line is missing
MacdInputMissing(t, c) == market_data[t][c].dif.nan \/ market_data[t][c].dea.nan

\* C11: where an indicator input is missing, every condition derived from it is
\* False: the trend buy zone and the trend sell event where the trend level or the
\* price is missing, the golden and the death cross where an oscillator line is
\* missing, and so the composed buy signal, and the composed sell signal where
\* both indicators are missing.
C11_MissingIsNoSignal ==
    OscarBuilt =>
        \A t \in Days, c \in Stocks :
            /\ SarInputMissing(t, c) =>
                  /\ ~SarBuyCondition(market_data)[t][c]
                  /\ ~SarSellCondition(market_data)[t][c]
                  /\ ~buy_condition[t][c]
            /\ MacdInputMissing(t, c) =>
                  /\ ~MacdBuyCondition(market_data)[t][c]
                  /\ ~MacdSellCondition(market_data)[t][c]
                  /\ ~buy_condition[t][c]
            /\ (SarInputMissing(t, c) /\ MacdInputMissing(t, c)) => ~sell_condition[t][c]

\* C14: the trend sell event is instantaneous: True only on a date where the trend
\* level is at or above price and was below price on the previous date, False on
\* every later date of the same above-price stretch.
C14_SarSellIsCrossing ==
    OscarBuilt =>
        \A t \in Days, c \in Stocks :
            SarSellCondition(market_data)[t][c] =>
                /\ Ge(market_data[t][c].sar, market_data[t][c].adj_close)
                /\ t > 1
                /\ Lt(market_data[t - 1][c].sar, market_data[t - 1][c].adj_close)

\* C18: the composed buy signal and the composed sell signal are never both True
\* for the same instrument on the same date, before the one-period shift and
\* after it, so hold-until never meets a buy and a sell on the same row.
C18_BuySellExclusive ==
    /\ OscarBuilt =>
          \A t \in Days, c \in Stocks : ~(buy_condition[t][c] /\ sell_condition[t][c])
    /\ (mode = "oscar" /\ pc = "held") =>
          \A t \in Days, c \in Stocks :
              ~(buy_signal[t][c] = "True" /\ sell_signal[t][c] = "True")

\* a day with a buy, a later day with a sell, both carried through the shift
C18_Witness ==
    /\ mode = "oscar" /\ pc = "held"
    /\ \E t, u \in Days :
          /\ t < u /\ u < NumDays
          /\ buy_condition[t]["S1"] /\ sell_condition[u]["S1"]
          /\ buy_signal[t + 1]["S1"] = "True" /\ sell_signal[u + 1]["S1"] = "True"

\* day-of-week d lies in [b, s), wrapping over the week end when s < b
InWindow(d, b, s) ==
    \E n \in 0..6 : n < (s - b + 7) % 7 /\ d = (b + n) % 7

\* C12: for buy and sell weekdays b, s in 0..4 with b # s, _apply_trading_window
\* returns a matrix over the same dates in which the rows whose day-of-week lies
\* in [b, s) (wrapping when s < b) are unchanged and every other row is all
\* False; when b = s the matrix is returned unchanged.
C12_WindowMask ==
    (mode = "window" /\ roger_pc = "windowed") =>
        LET b == strategy.buy_weekday
            s == strategy.sell_weekday
        IN  /\ DOMAIN position = DOMAIN window_input
            /\ b = s => position = window_input
            /\ b # s =>
                  \A d \in DOMAIN position :
                      IF InWindow(Weekday(d), b, s)
                      THEN position[d] = window_input[d]
                      ELSE \A c \in Universe : ~position[d][c]

\* a wrapping window that blanks a held row and keeps another
C12_Witness ==
    /\ mode = "window" /\ roger_pc = "windowed"
    /\ strategy.sell_weekday < strategy.buy_weekday
    /\ \E d, e \in DOMAIN position :
          /\ window_input[d]["A"] /\ ~position[d]["A"]
          /\ window_input[e]["A"] /\ position[e]["A"]

\* C16: the weekly period key of a date d is the one Sunday s with d <= s <= d+6:
\* a Sunday maps to itself, Monday to Saturday map to the following Sunday, and
\* two dates get the same key exactly when they lie in the same Monday-to-Sunday
\* week.
C16_AlignToSunday ==
    (mode = "align" /\ roger_pc = "aligned") =>
        /\ \A i \in 1..2 :
              /\ Weekday(align_key[i]) = 6
              /\ align_dt[i] <= align_key[i]
              /\ align_key[i] <= align_dt[i] + 6
              /\ Weekday(align_dt[i]) = 6 => align_key[i] = align_dt[i]
        /\ (align_key[1] = align_key[2]) <=> (align_dt[1] \div 7 = align_dt[2] \div 7)

\* a Sunday and the Monday after it: adjacent dates, different keys
C16_Witness ==
    /\ mode = "align" /\ roger_pc = "aligned"
    /\ Weekday(align_dt[1]) = 6
    /\ align_dt[2] = align_dt[1] + 1
    /\ align_key[1] = align_dt[1]
    /\ align_key[2] = align_dt[1] + 7

\* how many candidates of stock_list come before candidate i by priority, a
\* missing priority last, the earlier listed first among equals
Rank(stock_list, i) ==
    Cardinality({j \in 1..Len(stock_list) :
        \/ PriorityBefore(stock_list[j], stock_list[i])
        \/ /\ ~PriorityBefore(stock_list[i], stock_list[j])
           /\ j < i})

\* the k candidates of smallest priority, in ascending order
SmallestByPriority(stock_list, k) ==
    [r \in 1..Min(k, Len(stock_list)) |->
        stock_list[CHOOSE i \in 1..Len(stock_list) : Rank(stock_list, i) = r - 1]]

RogerCreated == mode = "roger" /\ roger_pc = "created"

\* C13 as stated: for every retained batch the ids written are those of the
\* max_stocks candidates of smallest priority, in ascending priority order, a
\* missing priority last; with at most max_stocks candidates all are written.
C13_TopKWritten ==
    RogerCreated =>
        \A key \in DOMAIN weekly_batches :
            LET smallest == SmallestByPriority(weekly_batches[key][2], max_stocks)
            IN  records[key] = [r \in 1..Len(smallest) |-> smallest[r].id]

\* C13 amended: for every retained batch the ids written are those of the
\* candidates that have an id among the max_stocks candidates of smallest
\* priority, in ascending priority order, a missing priority last: a candidate
\* without an id takes one of the max_stocks places and is not written. The
\* matrix row of a period that has written ids holds exactly the written ids
\* that are columns of the universe.
C13_TopKWithIdWritten ==
    RogerCreated =>
        \A key \in DOMAIN weekly_batches :
            LET smallest == SmallestByPriority(weekly_batches[key][2], max_stocks)
                with_id  == SelectSeq(smallest, LAMBDA stock : stock.id # "")
            IN  /\ records[key] = [r \in 1..Len(with_id) |-> with_id[r].id]
                /\ Len(records[key]) > 0 =>
                      \A c \in Universe :
                          position[key][c] <=>
                              \E r \in 1..Len(records[key]) : records[key][r] = c

\* a batch listing more candidates than max_stocks, out of priority order, and a
\* batch whose candidate of smallest priority has no id
C13_Witness ==
    /\ RogerCreated
    /\ \E key \in DOMAIN weekly_batches :
          LET stock_list == weekly_batches[key][2]
          IN  /\ Len(stock_list) > max_stocks
              /\ Rank(stock_list, 1) > 0
              /\ Len(records[key]) = max_stocks
    /\ \E key \in DOMAIN weekly_batches :
          LET stock_list == weekly_batches[key][2]
          IN  /\ Len(stock_list) > 1
              /\ stock_list[1].id = ""
              /\ Len(records[key]) < Min(max_stocks, Len(stock_list))

\* C17: every date of the matrix _create_position_df returns, and of the matrix
\* after the window mask and the one-day shift, has at most max_stocks
\* instruments True.
C17_AtMostKPerDate ==
    /\ (RogerCreated /\ position # None) =>
          \A d \in DOMAIN position :
              Cardinality({c \in Universe : position[d][c]}) <= max_stocks
    /\ (mode = "roger" /\ roger_pc = "done") =>
          \A d \in DOMAIN position :
              Cardinality({c \in Universe : position[d][c] = "True"}) <= max_stocks

\* a batch with more candidates than max_stocks, and a date of the final matrix
\* holding max_stocks instruments
C17_Witness ==
    /\ mode = "roger" /\ roger_pc = "done"
    /\ \E key \in DOMAIN weekly_batches : Len(weekly_batches[key][2]) > max_stocks
    /\ \E d \in DOMAIN position :
          Cardinality({c \in Universe : position[d][c] = "True"}) = max_stocks

\* the aligned_date whose row the final matrix shows on date d: after shift(-1)
\* date d shows the row of d + 1, forward-filled from the latest written period
SourceKey(d) ==
    LET rows == {key \in DOMAIN records : Len(records[key]) > 0}
    IN  CHOOSE key \in rows : key <= d + 1 /\ \A e \in rows : e <= d + 1 => e <= key

\* C19: the instruments held on date d in the final position of run_strategy
\* come from a retained record whose original date is at or before d.
C19_NoLookAhead ==
    (mode = "roger" /\ roger_pc = "done") =>
        \A d \in DOMAIN position :
            (\E c \in Universe : position[d][c] = "True") =>
                weekly_batches[SourceKey(d)][1] <= d

====
